---- MODULE Spec2Model ----
(***************************************************************************)
(* Forward decay, backward decay and sliding-window frequency estimators   *)
(* (src/quix_app/utils), driven side by side on one event stream as the    *)
(* evaluation scripts drive them.                                          *)
(*                                                                         *)
(* Arithmetic.  The estimators compute with math.exp(lambda_ * x).  The    *)
(* model measures lambda_ in units of ln 2, so math.exp(lambda_ * x) is    *)
(* 2^(lambda_ * x), and represents every float as an exact dyadic rational *)
(* [m |-> mantissa, e |-> exponent] = m * 2^e with m odd (or m = e = 0).   *)
(* Sums and products of such numbers are exact, so two formulas that are   *)
(* equal over the reals are equal in the model, and two that differ over   *)
(* the reals differ in the model.                                          *)
(*                                                                         *)
(* The evaluation scripts themselves, evaluation/run_experiments.py and    *)
(* quix_app/realtime_evaluator.py, are the variable harness: ground truth, *)
(* checkpoints every EVAL_EVERY events, the results arrays, the stop       *)
(* signal and the atexit save.  Their quotients are exact fractions.       *)
(*                                                                         *)
(* The SlidingWindowDecayAggregator of processor.py is the variable agg;   *)
(* its _rotate_buckets loop is taken one pass at a time.                   *)
(***************************************************************************)
EXTENDS Integers, Sequences, FiniteSets

\* ------------------------------------------------------------------ bounds
MaxTime == 2        \* event and query timestamps range over 0..MaxTime
MaxUpdates == 2     \* events fed to the estimators in one run
MaxStreamTime == 35 \* last timestamp of the one-key ascending stream
MaxSlidingUpdates == 3  \* events fed to a SlidingWindow running on its own
MaxAggCalls == 3        \* calls made on a SlidingWindowDecayAggregator

Items == {1, 2}          \* item ids
Times == 0 .. MaxTime
Lambdas == {2}           \* decay rates, in units of ln 2
KRange == 0 .. Cardinality(Items)  \* top_k's k: none, fewer than, all the items
WindowSizes == {1}       \* window durations of the general runs

\* window_size of the evaluation configuration and of the stand-alone processor
CONFIG_WINDOW_SIZE == 30
PROCESSOR_WINDOW_SIZE == 10

VARIABLES
    fd,      \* ForwardDecay instance: [lambda_, t0, decayed_counts]
    bd,      \* BackwardDecay instance: [lambda_, timestamps]
    sw,      \* SlidingWindow instance: [window_size, timestamps]
    issued,  \* history: the <<item_id, timestamp>> of every update call, in order
    last,    \* the last call made on an estimator, with what it returned
    harness, \* the evaluation script driving the estimators, None when there is none
    agg      \* a SlidingWindowDecayAggregator of processor.py, None when there is none

vars == <<fd, bd, sw, issued, last, harness, agg>>

\* ------------------------------------------------------- Python's None
None == <<>>
Some(x) == <<x>>
TheValue(opt) == opt[1]

\* ------------------------------------------------ exact float arithmetic
RECURSIVE Pow2(_)
Pow2(n) == IF n <= 0 THEN 1 ELSE 2 * Pow2(n - 1)

RECURSIVE Normalize(_, _)
Normalize(m, e) ==
    IF m = 0 THEN [m |-> 0, e |-> 0]
    ELSE IF m % 2 = 0 THEN Normalize(m \div 2, e + 1)
    ELSE [m |-> m, e |-> e]

Zero == [m |-> 0, e |-> 0]

\* math.exp(x) with x in units of ln 2
Exp(x) == [m |-> 1, e |-> x]

MinExp(a, b) == IF a.e <= b.e THEN a.e ELSE b.e
Scaled(a, e) == a.m * Pow2(a.e - e)

FAdd(a, b) ==
    IF a.m = 0 THEN b
    ELSE IF b.m = 0 THEN a
    ELSE LET e == MinExp(a, b) IN Normalize(Scaled(a, e) + Scaled(b, e), e)

FMul(a, b) == Normalize(a.m * b.m, a.e + b.e)

FLess(a, b) ==
    IF a.m = 0 THEN b.m > 0
    ELSE IF b.m = 0 THEN a.m < 0
    ELSE LET e == MinExp(a, b) IN Scaled(a, e) < Scaled(b, e)

\* a / p for p a power of two (a value of Exp)
FDivByPower(a, p) == IF a.m = 0 THEN Zero ELSE [m |-> a.m, e |-> a.e - p.e]

\* ------------------------------------------------- quotients of numbers
\* The evaluation scripts divide: by a ground-truth count, by len(...), by
\* TOP_K.  A quotient is the exact fraction [n |-> numerator, d |-> denominator]
\* in lowest terms with d > 0, so equal quotients are equal records.
RECURSIVE GCD(_, _)
GCD(a, b) == IF b = 0 THEN a ELSE GCD(b, a % b)

Abs(x) == IF x < 0 THEN -x ELSE x

Rat(n, d) ==
    LET g == GCD(Abs(n), Abs(d))
        sign == IF d < 0 THEN -1 ELSE 1
    IN [n |-> sign * (n \div g), d |-> Abs(d) \div g]

\* the value of a Python int and of a float, as a fraction
RatOfInt(i) == [n |-> i, d |-> 1]
RatOfFloat(f) ==
    IF f.e >= 0 THEN [n |-> f.m * Pow2(f.e), d |-> 1] ELSE Rat(f.m, Pow2(-f.e))

RZero == RatOfInt(0)
ROne == RatOfInt(1)

RAdd(a, b) == Rat(a.n * b.d + b.n * a.d, a.d * b.d)
RSub(a, b) == Rat(a.n * b.d - b.n * a.d, a.d * b.d)
RAbs(a) == [n |-> Abs(a.n), d |-> a.d]
\* a / b for b # 0; the caller raises ZeroDivisionError when b = 0
RDiv(a, b) == Rat(a.n * b.d, a.d * b.n)

\* sum(xs) of a list of fractions, xs[i ..] added to total in order
RECURSIVE RSum(_, _, _)
RSum(xs, i, total) == IF i > Len(xs) THEN total ELSE RSum(xs, i + 1, RAdd(total, xs[i]))

\* ------------------------------------------------- Python dict / defaultdict
\* A dict is the sequence of its [key, val] entries in insertion order.
Contains(d, k) == \E i \in DOMAIN d : d[i].key = k
Lookup(d, k) == d[CHOOSE i \in DOMAIN d : d[i].key = k].val
KeySet(d) == {d[i].key : i \in DOMAIN d}
\* defaultdict.__getitem__ as a read: the stored value, or the default_factory's
GetOrDefault(d, k, default) == IF Contains(d, k) THEN Lookup(d, k) ELSE default
\* defaultdict.__getitem__ as it leaves the mapping: a missing key is created
\* with the default_factory's value
Touch(d, k, default) ==
    IF Contains(d, k) THEN d ELSE Append(d, [key |-> k, val |-> default])
\* d[k] = v: an existing key keeps its place, a new key goes last
Store(d, k, v) ==
    IF Contains(d, k)
    THEN [i \in DOMAIN d |-> IF d[i].key = k THEN [key |-> k, val |-> v] ELSE d[i]]
    ELSE Append(d, [key |-> k, val |-> v])

\* ------------------------------------------------------- list operations
\* scored.sort(key=lambda x: x[1], reverse=True): stable, descending by score.
\* less[i][j] tells whether the score of entry i is below the score of entry j.
SortReverse(scored, less) ==
    LET n == Len(scored)
        Before(j, i) ==
            \/ less[i][j]
            \/ j < i /\ ~less[i][j] /\ ~less[j][i]
        Pos(i) == 1 + Cardinality({j \in 1 .. n : Before(j, i)})
    IN [p \in 1 .. n |-> scored[CHOOSE i \in 1 .. n : Pos(i) = p]]

\* the comparisons the sort makes on float scores and on int scores
FloatOrder(scored) ==
    [i \in DOMAIN scored |-> [j \in DOMAIN scored |-> FLess(scored[i][2], scored[j][2])]]
IntOrder(scored) ==
    [i \in DOMAIN scored |-> [j \in DOMAIN scored |-> scored[i][2] < scored[j][2]]]

\* Faulty variant: the slice keeps one entry too many
Prefix_one_more(s, k) == SubSeq(s, 1, IF k + 1 < Len(s) THEN k + 1 ELSE Len(s))

\* scored[:k] for k >= 0
Prefix(s, k) == SubSeq(s, 1, IF k < Len(s) THEN k ELSE Len(s))

\* bisect.bisect_left(a, x): binary search over 0-based positions lo..hi
RECURSIVE bisect_left(_, _, _, _)
bisect_left(a, x, lo, hi) ==
    IF lo < hi
    THEN LET mid == (lo + hi) \div 2
         IN IF a[mid + 1] < x
            THEN bisect_left(a, x, mid + 1, hi)
            ELSE bisect_left(a, x, lo, mid)
    ELSE lo

\* bisect.bisect_right(a, x), the search bisect.insort uses
RECURSIVE bisect_right(_, _, _, _)
bisect_right(a, x, lo, hi) ==
    IF lo < hi
    THEN LET mid == (lo + hi) \div 2
         IN IF x < a[mid + 1]
            THEN bisect_right(a, x, lo, mid)
            ELSE bisect_right(a, x, mid + 1, hi)
    ELSE lo

\* Faulty variant: the timestamp is appended, as BackwardDecay.update does
insort_append(a, x) == Append(a, x)

\* bisect.insort(a, x): a.insert(bisect_right(a, x), x)
insort(a, x) ==
    LET lo == bisect_right(a, x, 0, Len(a))
    IN SubSeq(a, 1, lo) \o <<x>> \o SubSeq(a, lo + 1, Len(a))

\* ------------------------------------------------------------ ForwardDecay
ForwardDecay_init(lam) == [lambda_ |-> lam, t0 |-> None, decayed_counts |-> <<>>]

\* Faulty variant: every update moves the landmark
ForwardDecay_ensure_t0_always(self, timestamp) ==
    [self EXCEPT !.t0 = Some(timestamp)]

ForwardDecay_ensure_t0(self, timestamp) ==
    IF self.t0 = None THEN [self EXCEPT !.t0 = Some(timestamp)] ELSE self

\* Faulty variant: the contribution is exp(-lambda * (t - t0)), as update's comment reads
ForwardDecay_update_negative_exponent(self, item_id, timestamp) ==
    LET s1 == ForwardDecay_ensure_t0(self, timestamp)
        d == Exp(-(s1.lambda_ * (timestamp - TheValue(s1.t0))))
    IN [s1 EXCEPT !.decayed_counts =
            Store(@, item_id, FAdd(GetOrDefault(@, item_id, Zero), d))]

\* Faulty variant: the contribution is exp(lambda * t), with no landmark subtracted
ForwardDecay_update_absolute_time(self, item_id, timestamp) ==
    LET s1 == ForwardDecay_ensure_t0(self, timestamp)
        d == Exp(s1.lambda_ * timestamp)
    IN [s1 EXCEPT !.decayed_counts =
            Store(@, item_id, FAdd(GetOrDefault(@, item_id, Zero), d))]

ForwardDecay_update(self, item_id, timestamp) ==
    LET s1 == ForwardDecay_ensure_t0(self, timestamp)
        d == Exp(s1.lambda_ * (timestamp - TheValue(s1.t0)))
    IN [s1 EXCEPT !.decayed_counts =
            Store(@, item_id, FAdd(GetOrDefault(@, item_id, Zero), d))]

\* Faulty variant: the multiplier is exp(+lambda * (t - t0)), as in top_k
ForwardDecay_query_positive_exponent(self, item_id, current_time) ==
    IF ~Contains(self.decayed_counts, item_id) THEN Zero
    ELSE IF self.t0 = None THEN Zero
    ELSE LET multiplier == Exp(self.lambda_ * (current_time - TheValue(self.t0)))
         IN FMul(Lookup(self.decayed_counts, item_id), multiplier)

ForwardDecay_query(self, item_id, current_time) ==
    IF ~Contains(self.decayed_counts, item_id) THEN Zero
    ELSE IF self.t0 = None THEN Zero
    ELSE LET multiplier == Exp(-(self.lambda_ * (current_time - TheValue(self.t0))))
         IN FMul(Lookup(self.decayed_counts, item_id), multiplier)

\* sum(v * multiplier for v in values), values[i .. ] added to total in order
RECURSIVE SumScaled(_, _, _, _)
SumScaled(values, multiplier, i, total) ==
    IF i > Len(values) THEN total
    ELSE SumScaled(values, multiplier, i + 1, FAdd(total, FMul(values[i].val, multiplier)))

ForwardDecay_total_frequency(self, current_time) ==
    IF self.t0 = None THEN Zero
    ELSE LET multiplier == Exp(self.lambda_ * (current_time - TheValue(self.t0)))
         IN SumScaled(self.decayed_counts, multiplier, 1, Zero)

ForwardDecay_top_k(self, k, current_time) ==
    IF self.t0 = None THEN <<>>
    ELSE LET multiplier == Exp(self.lambda_ * (current_time - TheValue(self.t0)))
             scored == [i \in DOMAIN self.decayed_counts |->
                           <<self.decayed_counts[i].key,
                             FMul(self.decayed_counts[i].val, multiplier)>>]
         IN Prefix(SortReverse(scored, FloatOrder(scored)), k)

\* The instance each read of a ForwardDecay leaves behind.
\* Faulty variant: query indexes the defaultdict before looking the key up
ForwardDecay_query_state_unguarded(self, item_id, current_time) ==
    [self EXCEPT !.decayed_counts = Touch(@, item_id, Zero)]

\* query returns before self.decayed_counts[item_id] unless the key is there
ForwardDecay_query_state(self, item_id, current_time) ==
    IF ~Contains(self.decayed_counts, item_id) THEN self
    ELSE IF self.t0 = None THEN self
    ELSE [self EXCEPT !.decayed_counts = Touch(@, item_id, Zero)]

\* total_frequency and top_k iterate over .values() and .items()
ForwardDecay_total_frequency_state(self, current_time) == self

ForwardDecay_top_k_state(self, k, current_time) == self

\* ----------------------------------------------------------- BackwardDecay
BackwardDecay_init(lam) == [lambda_ |-> lam, timestamps |-> <<>>]

\* Faulty variant: the log is kept sorted, as SlidingWindow.update keeps its own
BackwardDecay_update_sorted(self, item_id, timestamp) ==
    [self EXCEPT !.timestamps =
        Store(@, item_id, insort(GetOrDefault(@, item_id, <<>>), timestamp))]

\* Faulty variant: only the key's latest timestamp is kept
BackwardDecay_update_latest(self, item_id, timestamp) ==
    [self EXCEPT !.timestamps = Store(@, item_id, <<timestamp>>)]
BackwardDecay_update(self, item_id, timestamp) ==
    [self EXCEPT !.timestamps =
        Store(@, item_id, Append(GetOrDefault(@, item_id, <<>>), timestamp))]

\* for ts in ts_list: total += math.exp(-lambda_ * (current_time - ts))
RECURSIVE BackwardDecay_accumulate(_, _, _, _, _)
BackwardDecay_accumulate(lam, ts_list, current_time, i, total) ==
    IF i > Len(ts_list) THEN total
    ELSE BackwardDecay_accumulate(lam, ts_list, current_time, i + 1,
             FAdd(total, Exp(-(lam * (current_time - ts_list[i])))))

RECURSIVE BackwardDecay_total_loop(_, _, _, _)
BackwardDecay_total_loop(self, current_time, i, total) ==
    IF i > Len(self.timestamps) THEN total
    ELSE BackwardDecay_total_loop(self, current_time, i + 1,
             BackwardDecay_accumulate(self.lambda_, self.timestamps[i].val,
                                      current_time, 1, total))

BackwardDecay_total_frequency(self, current_time) ==
    BackwardDecay_total_loop(self, current_time, 1, Zero)

\* Faulty variant: the weights grow with the query time (exponent of the other sign)
RECURSIVE BackwardDecay_accumulate_growing(_, _, _, _, _)
BackwardDecay_accumulate_growing(lam, ts_list, current_time, i, total) ==
    IF i > Len(ts_list) THEN total
    ELSE BackwardDecay_accumulate_growing(lam, ts_list, current_time, i + 1,
             FAdd(total, Exp(lam * (current_time - ts_list[i]))))

BackwardDecay_query_growing(self, item_id, current_time) ==
    IF ~Contains(self.timestamps, item_id) THEN Zero
    ELSE BackwardDecay_accumulate_growing(self.lambda_, Lookup(self.timestamps, item_id),
                                          current_time, 1, Zero)
\* Faulty variant: the sum runs over every item's log, as total_frequency's does
BackwardDecay_query_all_items(self, item_id, current_time) ==
    BackwardDecay_total_frequency(self, current_time)

BackwardDecay_query(self, item_id, current_time) ==
    IF ~Contains(self.timestamps, item_id) THEN Zero
    ELSE BackwardDecay_accumulate(self.lambda_, Lookup(self.timestamps, item_id),
                                  current_time, 1, Zero)

BackwardDecay_top_k(self, k, current_time) ==
    LET scores == [i \in DOMAIN self.timestamps |->
                      <<self.timestamps[i].key,
                        BackwardDecay_accumulate(self.lambda_, self.timestamps[i].val,
                                                 current_time, 1, Zero)>>]
    IN Prefix(SortReverse(scores, FloatOrder(scores)), k)

\* The instance each read of a BackwardDecay leaves behind.
BackwardDecay_query_state(self, item_id, current_time) ==
    IF ~Contains(self.timestamps, item_id) THEN self
    ELSE [self EXCEPT !.timestamps = Touch(@, item_id, <<>>)]

BackwardDecay_total_frequency_state(self, current_time) == self

BackwardDecay_top_k_state(self, k, current_time) == self

\* ----------------------------------------------------------- SlidingWindow
SlidingWindow_init(w) == [window_size |-> w, timestamps |-> <<>>]

\* del d[k]
Remove(d, k) == SelectSeq(d, LAMBDA e : e.key # k)

\* Faulty variant: a key whose log empties is dropped from the mapping
SlidingWindow_cleanup_drop_empty(self, item_id, current_time) ==
    LET window_start == current_time - self.window_size
        ts_list == GetOrDefault(self.timestamps, item_id, <<>>)
        idx == bisect_left(ts_list, window_start, 0, Len(ts_list))
        kept == SubSeq(ts_list, idx + 1, Len(ts_list))
    IN [self EXCEPT !.timestamps =
            IF kept = <<>> THEN Remove(@, item_id) ELSE Store(@, item_id, kept)]

\* Faulty variant: the entry equal to window_start is evicted too (bisect_right)
SlidingWindow_cleanup_evict_boundary(self, item_id, current_time) ==
    LET window_start == current_time - self.window_size
        ts_list == GetOrDefault(self.timestamps, item_id, <<>>)
        idx == bisect_right(ts_list, window_start, 0, Len(ts_list))
    IN [self EXCEPT !.timestamps =
            Store(@, item_id, SubSeq(ts_list, idx + 1, Len(ts_list)))]

SlidingWindow_cleanup(self, item_id, current_time) ==
    LET window_start == current_time - self.window_size
        ts_list == GetOrDefault(self.timestamps, item_id, <<>>)
        idx == bisect_left(ts_list, window_start, 0, Len(ts_list))
    IN [self EXCEPT !.timestamps =
            Store(@, item_id, SubSeq(ts_list, idx + 1, Len(ts_list)))]

\* Faulty variant: the cleanup after the insertion sweeps every key
RECURSIVE SlidingWindow_sweep(_, _, _)
SlidingWindow_sweep(self, current_time, i) ==
    IF i > Len(self.timestamps) THEN self
    ELSE SlidingWindow_sweep(
             SlidingWindow_cleanup(self, self.timestamps[i].key, current_time),
             current_time, i + 1)

SlidingWindow_update_sweep(self, item_id, timestamp) ==
    LET inserted == [self EXCEPT !.timestamps =
                        Store(@, item_id,
                              insort(GetOrDefault(@, item_id, <<>>), timestamp))]
    IN SlidingWindow_sweep(inserted, timestamp, 1)
SlidingWindow_update(self, item_id, timestamp) ==
    LET inserted == [self EXCEPT !.timestamps =
                        Store(@, item_id,
                              insort(GetOrDefault(@, item_id, <<>>), timestamp))]
    IN SlidingWindow_cleanup(inserted, item_id, timestamp)

\* Faulty variant: only the timestamps before current_time are counted
SlidingWindow_query_before_now(self, item_id, current_time) ==
    IF ~Contains(self.timestamps, item_id)
    THEN [self |-> self, result |-> 0]
    ELSE LET cleaned == SlidingWindow_cleanup(self, item_id, current_time)
             ts_list == GetOrDefault(cleaned.timestamps, item_id, <<>>)
         IN [self |-> cleaned, result |-> bisect_left(ts_list, current_time, 0, Len(ts_list))]

\* The reads of a SlidingWindow change it: each returns the instance it leaves
\* behind (self) and the value it returns (result).
SlidingWindow_query(self, item_id, current_time) ==
    IF ~Contains(self.timestamps, item_id)
    THEN [self |-> self, result |-> 0]
    ELSE LET cleaned == SlidingWindow_cleanup(self, item_id, current_time)
         IN [self |-> cleaned, result |-> Len(GetOrDefault(cleaned.timestamps, item_id, <<>>))]

RECURSIVE SlidingWindow_total_loop(_, _, _, _)
SlidingWindow_total_loop(self, current_time, i, total) ==
    IF i > Len(self.timestamps) THEN [self |-> self, result |-> total]
    ELSE LET item_id == self.timestamps[i].key
             cleaned == SlidingWindow_cleanup(self, item_id, current_time)
         IN SlidingWindow_total_loop(cleaned, current_time, i + 1,
                total + Len(GetOrDefault(cleaned.timestamps, item_id, <<>>)))

SlidingWindow_total_frequency(self, current_time) ==
    SlidingWindow_total_loop(self, current_time, 1, 0)

RECURSIVE SlidingWindow_top_k_loop(_, _, _, _)
SlidingWindow_top_k_loop(self, current_time, i, scored) ==
    IF i > Len(self.timestamps) THEN [self |-> self, result |-> scored]
    ELSE LET item == self.timestamps[i].key
             cleaned == SlidingWindow_cleanup(self, item, current_time)
         IN SlidingWindow_top_k_loop(cleaned, current_time, i + 1,
                Append(scored, <<item, Len(GetOrDefault(cleaned.timestamps, item, <<>>))>>))

\* Faulty variant: the counts are compared as stored, no key is cleaned up
SlidingWindow_top_k_stale(self, k, current_time) ==
    LET scored == [i \in DOMAIN self.timestamps |->
                      <<self.timestamps[i].key, Len(self.timestamps[i].val)>>]
    IN [self |-> self, result |-> Prefix(SortReverse(scored, IntOrder(scored)), k)]
SlidingWindow_top_k(self, k, current_time) ==
    LET done == SlidingWindow_top_k_loop(self, current_time, 1, <<>>)
    IN [self |-> done.self, result |-> Prefix(SortReverse(done.result, IntOrder(done.result)), k)]

\* ------------------------------------------------------------------ calls
Call(op, item_id, time, k, result) ==
    [op |-> op, item_id |-> item_id, time |-> time, k |-> k, result |-> result]

Init ==
    /\ \E lam \in Lambdas :
          /\ fd = ForwardDecay_init(lam)
          /\ bd = BackwardDecay_init(lam)
    /\ \E w \in WindowSizes : sw = SlidingWindow_init(w)
    /\ issued = <<>>
    /\ last = Call("init", 0, 0, 0, None)
    /\ agg = None
    /\ harness = None

\* One event reaches the three estimators, in the order every driver uses.
Update(item, ts) ==
    /\ Len(issued) < MaxUpdates
    /\ fd' = ForwardDecay_update(fd, item, ts)
    /\ bd' = BackwardDecay_update(bd, item, ts)
    /\ sw' = SlidingWindow_update(sw, item, ts)
    /\ issued' = Append(issued, <<item, ts>>)
    /\ last' = Call("update", item, ts, 0, None)
    /\ UNCHANGED <<harness, agg>>

FDQuery(item, t) ==
    /\ last' = Call("fd.query", item, t, 0, ForwardDecay_query(fd, item, t))
    /\ fd' = ForwardDecay_query_state(fd, item, t)
    /\ UNCHANGED <<bd, sw, issued, harness, agg>>

FDTotalFrequency(t) ==
    /\ last' = Call("fd.total_frequency", 0, t, 0, ForwardDecay_total_frequency(fd, t))
    /\ fd' = ForwardDecay_total_frequency_state(fd, t)
    /\ UNCHANGED <<bd, sw, issued, harness, agg>>

FDTopK(k, t) ==
    /\ last' = Call("fd.top_k", 0, t, k, ForwardDecay_top_k(fd, k, t))
    /\ fd' = ForwardDecay_top_k_state(fd, k, t)
    /\ UNCHANGED <<bd, sw, issued, harness, agg>>

BDQuery(item, t) ==
    /\ last' = Call("bd.query", item, t, 0, BackwardDecay_query(bd, item, t))
    /\ bd' = BackwardDecay_query_state(bd, item, t)
    /\ UNCHANGED <<fd, sw, issued, harness, agg>>

BDTotalFrequency(t) ==
    /\ last' = Call("bd.total_frequency", 0, t, 0, BackwardDecay_total_frequency(bd, t))
    /\ bd' = BackwardDecay_total_frequency_state(bd, t)
    /\ UNCHANGED <<fd, sw, issued, harness, agg>>

BDTopK(k, t) ==
    /\ last' = Call("bd.top_k", 0, t, k, BackwardDecay_top_k(bd, k, t))
    /\ bd' = BackwardDecay_top_k_state(bd, k, t)
    /\ UNCHANGED <<fd, sw, issued, harness, agg>>

SWQuery(item, t) ==
    LET r == SlidingWindow_query(sw, item, t)
    IN /\ sw' = r.self
       /\ last' = Call("sw.query", item, t, 0, r.result)
       /\ UNCHANGED <<fd, bd, issued, harness, agg>>

SWTotalFrequency(t) ==
    LET r == SlidingWindow_total_frequency(sw, t)
    IN /\ sw' = r.self
       /\ last' = Call("sw.total_frequency", 0, t, 0, r.result)
       /\ UNCHANGED <<fd, bd, issued, harness, agg>>

SWTopK(k, t) ==
    LET r == SlidingWindow_top_k(sw, k, t)
    IN /\ sw' = r.self
       /\ last' = Call("sw.top_k", 0, t, k, r.result)
       /\ UNCHANGED <<fd, bd, issued, harness, agg>>

Next ==
    \/ \E item \in Items, ts \in Times : Update(item, ts)
    \/ \E item \in Items, t \in Times : FDQuery(item, t)
    \/ \E t \in Times : FDTotalFrequency(t)
    \/ \E k \in KRange, t \in Times : FDTopK(k, t)
    \/ \E item \in Items, t \in Times : BDQuery(item, t)
    \/ \E t \in Times : BDTotalFrequency(t)
    \/ \E k \in KRange, t \in Times : BDTopK(k, t)
    \/ \E item \in Items, t \in Times : SWQuery(item, t)
    \/ \E t \in Times : SWTotalFrequency(t)
    \/ \E k \in KRange, t \in Times : SWTopK(k, t)

Spec == Init /\ [][Next]_vars

\* ------------------------------------------- one estimator, several decay rates
\* A ForwardDecay of any of several decay rates receives events and is queried.
FreshLambdas == {1, 2, 3}

FreshInit ==
    /\ \E lam \in FreshLambdas :
          /\ fd = ForwardDecay_init(lam)
          /\ bd = BackwardDecay_init(lam)
    /\ \E w \in WindowSizes : sw = SlidingWindow_init(w)
    /\ issued = <<>>
    /\ last = Call("init", 0, 0, 0, None)
    /\ agg = None
    /\ harness = None

FreshNext ==
    \/ \E item \in Items, ts \in Times : Update(item, ts)
    \/ \E item \in Items, t \in Times : FDQuery(item, t)

FreshSpec == FreshInit /\ [][FreshNext]_vars

\* ------------------------------------------- the one-key ascending stream
\* One key receives one update per second at timestamps 0, 1, 2, ...; a query
\* may follow each update, at the update's own timestamp.
StreamInit ==
    /\ \E lam \in Lambdas :
          /\ fd = ForwardDecay_init(lam)
          /\ bd = BackwardDecay_init(lam)
    /\ \E w \in {CONFIG_WINDOW_SIZE, PROCESSOR_WINDOW_SIZE} : sw = SlidingWindow_init(w)
    /\ issued = <<>>
    /\ last = Call("init", 0, 0, 0, None)
    /\ agg = None
    /\ harness = None

StreamUpdate(item) ==
    /\ Len(issued) <= MaxStreamTime
    /\ issued # <<>> => item = issued[1][1]
    /\ sw' = SlidingWindow_update(sw, item, Len(issued))
    /\ issued' = Append(issued, <<item, Len(issued)>>)
    /\ last' = Call("update", item, Len(issued), 0, None)
    /\ UNCHANGED <<fd, bd, harness, agg>>

StreamQuery ==
    /\ last.op = "update"
    /\ SWQuery(last.item_id, last.time)

StreamNext ==
    \/ \E item \in Items : StreamUpdate(item)
    \/ StreamQuery

StreamSpec == StreamInit /\ [][StreamNext]_vars

\* ------------------------------------------- a SlidingWindow on its own
\* Only the SlidingWindow receives the events, in any order of timestamps,
\* and is queried between them, as quix_app/sliding_window_processor.py runs it.
SlidingUpdate(item, ts) ==
    /\ Len(issued) < MaxSlidingUpdates
    /\ sw' = SlidingWindow_update(sw, item, ts)
    /\ issued' = Append(issued, <<item, ts>>)
    /\ last' = Call("update", item, ts, 0, None)
    /\ UNCHANGED <<fd, bd, harness, agg>>

SlidingNext ==
    \/ \E item \in Items, ts \in Times : SlidingUpdate(item, ts)
    \/ \E item \in Items, t \in Times : SWQuery(item, t)

SlidingSpec == Init /\ [][SlidingNext]_vars
\* ------------------------------------------------------ history functions
IssuedItems == {issued[i][1] : i \in DOMAIN issued}

\* the timestamps of the updates issued for item, in call order
RECURSIVE IssuedTimestamps(_, _)
IssuedTimestamps(item, n) ==
    IF n = 0 THEN <<>>
    ELSE IF issued[n][1] = item
         THEN Append(IssuedTimestamps(item, n - 1), issued[n][2])
         ELSE IssuedTimestamps(item, n - 1)

\* number of updates issued for item with timestamp in [lo, hi]
IssuedWithin(item, lo, hi) ==
    Cardinality({i \in DOMAIN issued :
                    issued[i][1] = item /\ lo <= issued[i][2] /\ issued[i][2] <= hi})

StrictlyAscending(s) == \A i \in 1 .. Len(s) - 1 : s[i] < s[i + 1]
Ascending(s) == \A i \in 1 .. Len(s) - 1 : s[i] <= s[i + 1]

Min(a, b) == IF a <= b THEN a ELSE b

\* sum(len(v) for v in d.values()) over the first n entries of d
RECURSIVE StoredEntries(_, _)
StoredEntries(d, n) == IF n = 0 THEN 0 ELSE Len(d[n].val) + StoredEntries(d, n - 1)

\* ------------------------------------------------- the evaluation scripts
\* Faulty variant: a zero truth always gives 0
run_experiments_relative_error_zero_truth(est, truth) ==
    IF truth = RZero
    THEN RZero
    ELSE RDiv(RAbs(RSub(est, truth)), truth)

\* relative_error of evaluation/run_experiments.py, on fractions
run_experiments_relative_error(est, truth) ==
    IF truth = RZero
    THEN IF est = RZero THEN RZero ELSE ROne
    ELSE RDiv(RAbs(RSub(est, truth)), truth)

\* the checkpoint intervals, the measured update latencies <<fd, bd, sw>> of one
\* event (in ticks of the performance counter), and the tracked keys
EvalEverys == {1, 2}
LatencyTriples == {<<1, 1, 1>>, <<3, 5, 7>>}
TrackItems == <<1, 2>>

\* the script's state before the first event
Harness_init(script, lam, eval_every, track_items, top_k, results) ==
    [script |-> script, lambda_ |-> lam,   \* LAMBDA
     EVAL_EVERY |-> eval_every, TRACK_ITEMS |-> track_items, TOP_K |-> top_k,
     ground_truth |-> <<>>,           \* ground_truth / raw_ground_truth
     L |-> None, decayed_ground_truth |-> <<>>,
     packet_count |-> 0,              \* events processed: i + 1 / packet_count
     update_times |-> <<0, 0, 0>>,    \* fd_time, bd_time, sw_time of the last event
     timing_data |-> [fd_times |-> <<>>, bd_times |-> <<>>, sw_times |-> <<>>],
     errs |-> [fd |-> <<>>, bd |-> <<>>, sw |-> <<>>],  \* fd_errs, bd_errs, sw_errs
     ts |-> 0,                        \* the ts of the checkpoint being computed
     results |-> results,
     pc |-> "collecting", error |-> None, saved |-> None,
     measured |-> <<>>]               \* history: the update times of every event

run_experiments_results ==
    [timestamps |-> <<>>,
     fd_error |-> <<>>, bd_error |-> <<>>, sw_error |-> <<>>,
     fd_avg_error |-> <<>>, bd_avg_error |-> <<>>, sw_avg_error |-> <<>>,
     topk_accuracy_fd |-> <<>>, topk_accuracy_bd |-> <<>>, topk_accuracy_sw |-> <<>>,
     memory_fd |-> <<>>, memory_bd |-> <<>>, memory_sw |-> <<>>,
     fd_time |-> <<>>, bd_time |-> <<>>, sw_time |-> <<>>]

\* An uncaught exception ends the script.  realtime_evaluator has registered
\* save_results with atexit, which the exiting interpreter still runs.
Raise(h, name) ==
    [h EXCEPT !.pc = IF h.script = "realtime_evaluator" THEN "exiting" ELSE "raised",
              !.error = Some(name)]

\* set([x[0] for x in pairs])
FirstsOf(pairs) == {pairs[i][1] : i \in DOMAIN pairs}

\* sorted(ground_truth.items(), key=lambda x: x[1], reverse=True)[:TOP_K]
true_topk(ground_truth, k) ==
    LET pairs == [i \in DOMAIN ground_truth |-> <<ground_truth[i].key, ground_truth[i].val>>]
    IN Prefix(SortReverse(pairs, IntOrder(pairs)), k)

\* Faulty variant: the count is set, not incremented
ground_truth_increment_assign(ground_truth, item) ==
    Store(ground_truth, item, 1)

\* ground_truth[item] += 1 on a defaultdict(int)
ground_truth_increment(ground_truth, item) ==
    Store(ground_truth, item, GetOrDefault(ground_truth, item, 0) + 1)

\* Faulty variant: the loop index i is tested, not the number of events i + 1
run_experiments_eval_due_index(h) == (h.packet_count - 1) % h.EVAL_EVERY = 0

\* (i + 1) % EVAL_EVERY == 0, for EVAL_EVERY # 0
run_experiments_eval_due(h) == h.packet_count % h.EVAL_EVERY = 0

\* An intermediate result that several later lines read is bound once, as the
\* only member of a set: CHOOSE out \in {body : x \in {value}} : TRUE is body
\* with x standing for value.

\* One pass of `for it in TRACK_ITEMS:`: truth = ground_truth[it] (a defaultdict
\* read, which stores 0 for a key not seen), the three queries, the three
\* relative errors.  at holds the script and the SlidingWindow so far.
run_experiments_track_item(at, fdi, bdi, it) ==
    LET h == at.harness
        ground_truth == IF Contains(h.ground_truth, it) THEN h.ground_truth
                        ELSE Store(h.ground_truth, it, 0)
        truth == RatOfInt(Lookup(ground_truth, it))
        fd_est == RatOfFloat(ForwardDecay_query(fdi, it, h.ts))
        bd_est == RatOfFloat(BackwardDecay_query(bdi, it, h.ts))
        sw_q == SlidingWindow_query(at.sw, it, h.ts)
        sw_est == RatOfInt(sw_q.result)
    IN [harness |->
           [h EXCEPT !.ground_truth = ground_truth,
                     !.errs = [fd |-> Append(@.fd, run_experiments_relative_error(fd_est, truth)),
                               bd |-> Append(@.bd, run_experiments_relative_error(bd_est, truth)),
                               sw |-> Append(@.sw, run_experiments_relative_error(sw_est, truth))]],
        sw |-> sw_q.self]

RECURSIVE run_experiments_track_loop(_, _, _, _)
run_experiments_track_loop(at, fdi, bdi, i) ==
    IF i > Len(at.harness.TRACK_ITEMS) THEN at
    ELSE CHOOSE out \in
            {run_experiments_track_loop(next, fdi, bdi, i + 1) :
                next \in {run_experiments_track_item(at, fdi, bdi, at.harness.TRACK_ITEMS[i])}} :
            TRUE

\* results[...avg_error].append(sum(errs) / len(errs)); results[..._error].append(errs[0])
run_experiments_errors(h) ==
    LET n == RatOfInt(Len(h.TRACK_ITEMS))
    IN [h EXCEPT
          !.results.fd_avg_error = Append(@, RDiv(RSum(h.errs.fd, 1, RZero), n)),
          !.results.bd_avg_error = Append(@, RDiv(RSum(h.errs.bd, 1, RZero), n)),
          !.results.sw_avg_error = Append(@, RDiv(RSum(h.errs.sw, 1, RZero), n)),
          !.results.fd_error = Append(@, h.errs.fd[1]),
          !.results.bd_error = Append(@, h.errs.bd[1]),
          !.results.sw_error = Append(@, h.errs.sw[1])]

\* the three top-k sets against the true one; sw_top is what sw.top_k returned
run_experiments_topk_accuracy(h, fdi, bdi, sw_top) ==
    LET true_items == FirstsOf(true_topk(h.ground_truth, h.TOP_K))
        fd_top == FirstsOf(ForwardDecay_top_k(fdi, h.TOP_K, h.ts))
        bd_top == FirstsOf(BackwardDecay_top_k(bdi, h.TOP_K, h.ts))
    IN [h EXCEPT
          !.results.topk_accuracy_fd =
              Append(@, Rat(Cardinality(fd_top \cap true_items), h.TOP_K)),
          !.results.topk_accuracy_bd =
              Append(@, Rat(Cardinality(bd_top \cap true_items), h.TOP_K)),
          !.results.topk_accuracy_sw =
              Append(@, Rat(Cardinality(FirstsOf(sw_top) \cap true_items), h.TOP_K))]

\* Faulty variant: Backward's footprint is its number of keys
run_experiments_memory_and_time_keys(h, fdi, bdi, swi) ==
    [h EXCEPT
       !.results.memory_fd = Append(@, Len(fdi.decayed_counts)),
       !.results.memory_bd = Append(@, Len(bdi.timestamps)),
       !.results.memory_sw = Append(@, StoredEntries(swi.timestamps, Len(swi.timestamps))),
       !.results.fd_time = Append(@, RatOfInt(h.update_times[1])),
       !.results.bd_time = Append(@, RatOfInt(h.update_times[2])),
       !.results.sw_time = Append(@, RatOfInt(h.update_times[3]))]
\* memory footprints and the update times of the event just processed
run_experiments_memory_and_time(h, fdi, bdi, swi) ==
    [h EXCEPT
       !.results.memory_fd = Append(@, Len(fdi.decayed_counts)),
       !.results.memory_bd = Append(@, StoredEntries(bdi.timestamps, Len(bdi.timestamps))),
       !.results.memory_sw = Append(@, StoredEntries(swi.timestamps, Len(swi.timestamps))),
       !.results.fd_time = Append(@, RatOfInt(h.update_times[1])),
       !.results.bd_time = Append(@, RatOfInt(h.update_times[2])),
       !.results.sw_time = Append(@, RatOfInt(h.update_times[3]))]

\* The body of `if (i + 1) % EVAL_EVERY == 0:`.  Returns the script and the
\* SlidingWindow it leaves behind; a division by zero ends it where it occurs.
run_experiments_checkpoint(h, fdi, bdi, swi, ts) ==
    CHOOSE out \in
        {IF Len(looped.harness.TRACK_ITEMS) = 0
         THEN [harness |-> Raise(looped.harness, "ZeroDivisionError"), sw |-> looped.sw]
         ELSE CHOOSE out2 \in
                 {IF h3.TOP_K = 0
                  THEN [harness |-> Raise(h3, "ZeroDivisionError"), sw |-> sw_k.self]
                  ELSE CHOOSE out3 \in
                          {[harness |-> run_experiments_memory_and_time(h4, fdi, bdi, sw_k.self),
                            sw |-> sw_k.self] :
                              h4 \in {run_experiments_topk_accuracy(h3, fdi, bdi, sw_k.result)}} :
                          TRUE :
                      h3 \in {run_experiments_errors(looped.harness)},
                      sw_k \in {SlidingWindow_top_k(looped.sw, looped.harness.TOP_K, ts)}} :
                 TRUE :
             looped \in {run_experiments_track_loop(
                            [harness |-> [h EXCEPT !.ts = ts,
                                                   !.results.timestamps = Append(@, ts),
                                                   !.errs = [fd |-> <<>>, bd |-> <<>>, sw |-> <<>>]],
                             sw |-> swi],
                            fdi, bdi, 1)}} :
        TRUE

\* One iteration of `for i, (ts, item) in enumerate(stream):`
run_experiments_iteration(h, fdi, bdi, swi, item, ts, times) ==
    CHOOSE out \in
        {IF h1.EVAL_EVERY = 0
         THEN [harness |-> Raise(h1, "ZeroDivisionError"), fd |-> fd1, bd |-> bd1, sw |-> sw1]
         ELSE IF run_experiments_eval_due(h1)
         THEN CHOOSE out2 \in
                 {[harness |-> checked.harness, fd |-> fd1, bd |-> bd1, sw |-> checked.sw] :
                     checked \in {run_experiments_checkpoint(h1, fd1, bd1, sw1, ts)}} :
                 TRUE
         ELSE [harness |-> h1, fd |-> fd1, bd |-> bd1, sw |-> sw1] :
             h1 \in {[h EXCEPT !.ground_truth = ground_truth_increment(@, item),
                               !.update_times = times,
                               !.measured = Append(@, times),
                               !.packet_count = @ + 1]},
             fd1 \in {ForwardDecay_update(fdi, item, ts)},
             bd1 \in {BackwardDecay_update(bdi, item, ts)},
             sw1 \in {SlidingWindow_update(swi, item, ts)}} :
        TRUE

\* run_experiments() up to the loop: fresh estimators, empty metrics
RunExperimentsInit ==
    /\ \E lam \in Lambdas, eval_every \in EvalEverys :
          /\ fd = ForwardDecay_init(lam)
          /\ bd = BackwardDecay_init(lam)
          /\ harness = Harness_init("run_experiments", lam, eval_every, TrackItems,
                                    Len(TrackItems), run_experiments_results)
    /\ \E w \in WindowSizes : sw = SlidingWindow_init(w)
    /\ issued = <<>>
    /\ last = Call("init", 0, 0, 0, None)
    /\ agg = None

RunExperimentsIteration(item, ts, times) ==
    /\ harness.script = "run_experiments"
    /\ harness.pc = "collecting"
    /\ Len(issued) < MaxUpdates
    /\ \E r \in {run_experiments_iteration(harness, fd, bd, sw, item, ts, times)} :
          /\ harness' = r.harness
          /\ fd' = r.fd
          /\ bd' = r.bd
          /\ sw' = r.sw
    /\ issued' = Append(issued, <<item, ts>>)
    /\ last' = Call("update", item, ts, 0, None)
    /\ UNCHANGED agg

\* the stream is exhausted: json.dump(results, f)
RunExperimentsSave ==
    /\ harness.script = "run_experiments"
    /\ harness.pc = "collecting"
    /\ harness' = [harness EXCEPT !.saved = Some(harness.results), !.pc = "terminated"]
    /\ UNCHANGED <<fd, bd, sw, issued, last, agg>>

RunExperimentsNext ==
    \/ \E item \in Items, ts \in Times, times \in LatencyTriples :
          RunExperimentsIteration(item, ts, times)
    \/ RunExperimentsSave

RunExperimentsSpec == RunExperimentsInit /\ [][RunExperimentsNext]_vars

\* ------------------------------------------------ quix_app/realtime_evaluator.py
realtime_evaluator_relative_error(est, truth) ==
    IF truth = RZero
    THEN IF est = RZero THEN RZero ELSE ROne
    ELSE RDiv(RAbs(RSub(est, truth)), truth)

\* wall-clock seconds between two checkpoints, as time.time() reports them
Durations == {0, 1}

realtime_evaluator_results ==
    [timestamps |-> <<>>,
     fd_avg_error |-> <<>>, bd_avg_error |-> <<>>, sw_avg_error |-> <<>>,
     topk_accuracy_fd |-> <<>>, topk_accuracy_bd |-> <<>>, topk_accuracy_sw |-> <<>>,
     memory_fd |-> <<>>, memory_bd |-> <<>>, memory_sw |-> <<>>,
     fd_time |-> <<>>, bd_time |-> <<>>, sw_time |-> <<>>,
     eps |-> <<>>]

\* packet_count % EVAL_EVERY == 0, for EVAL_EVERY # 0
process_packet_eval_due(h) == h.packet_count % h.EVAL_EVERY = 0

\* process_packet(row) up to its call of evaluate_performance(ts)
process_packet(h, fdi, bdi, swi, item, ts, times) ==
    CHOOSE out \in
        {[harness |->
             IF h1.EVAL_EVERY = 0 THEN Raise(h1, "ZeroDivisionError")
             ELSE IF process_packet_eval_due(h1)
             THEN [h1 EXCEPT !.pc = "timestamps", !.ts = ts]
             ELSE h1,
          fd |-> ForwardDecay_update(fdi, item, ts),
          bd |-> BackwardDecay_update(bdi, item, ts),
          sw |-> SlidingWindow_update(swi, item, ts)] :
             h1 \in {LET L == IF h.L = None THEN Some(ts) ELSE h.L
                         weight_numerator == Exp(h.lambda_ * (ts - TheValue(L)))
                     IN [h EXCEPT
                           !.ground_truth = ground_truth_increment(@, item),
                           !.L = L,
                           !.decayed_ground_truth =
                               Store(@, item, FAdd(GetOrDefault(@, item, Zero), weight_numerator)),
                           !.update_times = times,
                           !.measured = Append(@, times),
                           !.timing_data = [fd_times |-> Append(@.fd_times, times[1]),
                                            bd_times |-> Append(@.bd_times, times[2]),
                                            sw_times |-> Append(@.sw_times, times[3])],
                           !.packet_count = @ + 1]}} :
        TRUE

\* evaluate_performance, lines 185-192: the timestamp and the throughput
evaluate_performance_timestamps(h, duration) ==
    [h EXCEPT !.results.timestamps = Append(@, h.ts),
              !.results.eps = Append(@, IF duration > 0 THEN Rat(h.EVAL_EVERY, duration)
                                        ELSE RZero),
              !.pc = "errors"]

\* One pass of `for item in TRACK_ITEMS:`; decayed_ground_truth[item] is a
\* defaultdict read, which stores 0.0 for a key not seen.
evaluate_performance_track_item(at, fdi, bdi, item) ==
    LET h == at.harness
        current_denominator == Exp(h.lambda_ * (h.ts - TheValue(h.L)))
        decayed_ground_truth ==
            IF Contains(h.decayed_ground_truth, item) THEN h.decayed_ground_truth
            ELSE Store(h.decayed_ground_truth, item, Zero)
        exact_truth ==
            RatOfFloat(FDivByPower(Lookup(decayed_ground_truth, item), current_denominator))
        fd_est == RatOfFloat(ForwardDecay_query(fdi, item, h.ts))
        bd_est == RatOfFloat(BackwardDecay_query(bdi, item, h.ts))
        sw_q == SlidingWindow_query(at.sw, item, h.ts)
        sw_est == RatOfInt(sw_q.result)
    IN [harness |->
           [h EXCEPT !.decayed_ground_truth = decayed_ground_truth,
                     !.errs = [fd |-> Append(@.fd, realtime_evaluator_relative_error(fd_est, exact_truth)),
                               bd |-> Append(@.bd, realtime_evaluator_relative_error(bd_est, exact_truth)),
                               sw |-> Append(@.sw, realtime_evaluator_relative_error(sw_est, exact_truth))]],
        sw |-> sw_q.self]

RECURSIVE evaluate_performance_track_loop(_, _, _, _)
evaluate_performance_track_loop(at, fdi, bdi, i) ==
    IF i > Len(at.harness.TRACK_ITEMS) THEN at
    ELSE CHOOSE out \in
            {evaluate_performance_track_loop(next, fdi, bdi, i + 1) :
                next \in {evaluate_performance_track_item(at, fdi, bdi, at.harness.TRACK_ITEMS[i])}} :
            TRUE

\* evaluate_performance, lines 195-206: the relative errors and their averages
evaluate_performance_errors(h, fdi, bdi, swi) ==
    CHOOSE out \in
        {IF Len(h.TRACK_ITEMS) = 0
         THEN [harness |-> Raise(looped.harness, "ZeroDivisionError"), sw |-> looped.sw]
         ELSE [harness |->
                  LET h2 == looped.harness
                      n == RatOfInt(Len(h2.TRACK_ITEMS))
                  IN [h2 EXCEPT
                        !.results.fd_avg_error = Append(@, RDiv(RSum(h2.errs.fd, 1, RZero), n)),
                        !.results.bd_avg_error = Append(@, RDiv(RSum(h2.errs.bd, 1, RZero), n)),
                        !.results.sw_avg_error = Append(@, RDiv(RSum(h2.errs.sw, 1, RZero), n)),
                        !.pc = "topk"],
               sw |-> looped.sw] :
             looped \in {evaluate_performance_track_loop(
                            [harness |-> [h EXCEPT !.errs = [fd |-> <<>>, bd |-> <<>>, sw |-> <<>>]],
                             sw |-> swi],
                            fdi, bdi, 1)}} :
        TRUE

\* evaluate_performance, lines 209-213: the top-k accuracies.  With TOP_K = 0
\* line 211 raises before bd.top_k and sw.top_k are called.
evaluate_performance_topk(h, fdi, bdi, swi) ==
    IF h.TOP_K = 0
    THEN [harness |-> Raise(h, "ZeroDivisionError"), sw |-> swi]
    ELSE CHOOSE out \in
            {[harness |->
                 LET true_items == FirstsOf(true_topk(h.ground_truth, h.TOP_K))
                     fd_top == FirstsOf(ForwardDecay_top_k(fdi, h.TOP_K, h.ts))
                     bd_top == FirstsOf(BackwardDecay_top_k(bdi, h.TOP_K, h.ts))
                     sw_top == FirstsOf(sw_k.result)
                 IN [h EXCEPT
                       !.results.topk_accuracy_fd =
                           Append(@, Rat(Cardinality(fd_top \cap true_items), h.TOP_K)),
                       !.results.topk_accuracy_bd =
                           Append(@, Rat(Cardinality(bd_top \cap true_items), h.TOP_K)),
                       !.results.topk_accuracy_sw =
                           Append(@, Rat(Cardinality(sw_top \cap true_items), h.TOP_K)),
                       !.pc = "memory"],
              sw |-> sw_k.self] :
                 sw_k \in {SlidingWindow_top_k(swi, h.TOP_K, h.ts)}} :
            TRUE

\* evaluate_performance, lines 216-218: the memory footprints
evaluate_performance_memory(h, fdi, bdi, swi) ==
    [h EXCEPT
       !.results.memory_fd = Append(@, Len(fdi.decayed_counts)),
       !.results.memory_bd = Append(@, StoredEntries(bdi.timestamps, Len(bdi.timestamps))),
       !.results.memory_sw = Append(@, StoredEntries(swi.timestamps, Len(swi.timestamps))),
       !.pc = "time"]

\* a[-n:] for n > 0
LastN(a, n) == SubSeq(a, IF Len(a) > n THEN Len(a) - n + 1 ELSE 1, Len(a))

RECURSIVE IntSum(_, _)
IntSum(a, i) == IF i > Len(a) THEN 0 ELSE a[i] + IntSum(a, i + 1)

\* np.mean(a) of a non-empty list of ints
np_mean(a) == Rat(IntSum(a, 1), Len(a))

\* evaluate_performance, lines 220-223: the mean update times of the last
\* EVAL_EVERY events; the function returns to the stream loop
evaluate_performance_time(h) ==
    [h EXCEPT
       !.results.fd_time = Append(@, np_mean(LastN(h.timing_data.fd_times, h.EVAL_EVERY))),
       !.results.bd_time = Append(@, np_mean(LastN(h.timing_data.bd_times, h.EVAL_EVERY))),
       !.results.sw_time = Append(@, np_mean(LastN(h.timing_data.sw_times, h.EVAL_EVERY))),
       !.pc = "collecting"]

\* save_results(output_file): json.dump(results, f), after which the process is gone
save_results(h) == [h EXCEPT !.saved = Some(h.results), !.pc = "terminated"]

\* the module's globals and run_realtime_evaluator() up to app.run(sdf)
RealtimeInit ==
    /\ \E lam \in Lambdas, eval_every \in EvalEverys :
          /\ fd = ForwardDecay_init(lam)
          /\ bd = BackwardDecay_init(lam)
          /\ harness = Harness_init("realtime_evaluator", lam, eval_every, TrackItems,
                                    Len(TrackItems), realtime_evaluator_results)
    /\ \E w \in WindowSizes : sw = SlidingWindow_init(w)
    /\ issued = <<>>
    /\ last = Call("init", 0, 0, 0, None)
    /\ agg = None

\* A stop signal can reach the process between any two statements, so
\* evaluate_performance is taken in steps, one per group of results it appends.
ProcessPacket(item, ts, times) ==
    /\ harness.script = "realtime_evaluator"
    /\ harness.pc = "collecting"
    /\ Len(issued) < MaxUpdates
    /\ \E r \in {process_packet(harness, fd, bd, sw, item, ts, times)} :
          /\ harness' = r.harness
          /\ fd' = r.fd
          /\ bd' = r.bd
          /\ sw' = r.sw
    /\ issued' = Append(issued, <<item, ts>>)
    /\ last' = Call("update", item, ts, 0, None)
    /\ UNCHANGED agg

EvaluateTimestamps(duration) ==
    /\ harness.script = "realtime_evaluator"
    /\ harness.pc = "timestamps"
    /\ harness' = evaluate_performance_timestamps(harness, duration)
    /\ UNCHANGED <<fd, bd, sw, issued, last, agg>>

EvaluateErrors ==
    /\ harness.script = "realtime_evaluator"
    /\ harness.pc = "errors"
    /\ \E r \in {evaluate_performance_errors(harness, fd, bd, sw)} :
          /\ harness' = r.harness
          /\ sw' = r.sw
    /\ UNCHANGED <<fd, bd, issued, last, agg>>

EvaluateTopK ==
    /\ harness.script = "realtime_evaluator"
    /\ harness.pc = "topk"
    /\ \E r \in {evaluate_performance_topk(harness, fd, bd, sw)} :
          /\ harness' = r.harness
          /\ sw' = r.sw
    /\ UNCHANGED <<fd, bd, issued, last, agg>>

EvaluateMemory ==
    /\ harness.script = "realtime_evaluator"
    /\ harness.pc = "memory"
    /\ harness' = evaluate_performance_memory(harness, fd, bd, sw)
    /\ UNCHANGED <<fd, bd, sw, issued, last, agg>>

EvaluateTime ==
    /\ harness.script = "realtime_evaluator"
    /\ harness.pc = "time"
    /\ harness' = evaluate_performance_time(harness)
    /\ UNCHANGED <<fd, bd, sw, issued, last, agg>>

\* SIGTERM or SIGINT: signal_handler runs sys.exit(0) in the main thread,
\* wherever that thread is
SignalHandler ==
    /\ harness.script = "realtime_evaluator"
    /\ harness.pc \notin {"exiting", "terminated"}
    /\ harness' = [harness EXCEPT !.pc = "exiting"]
    /\ UNCHANGED <<fd, bd, sw, issued, last, agg>>

\* the atexit call of save_results(output_file): json.dump(results, f)
SaveResults ==
    /\ harness.script = "realtime_evaluator"
    /\ harness.pc = "exiting"
    /\ harness' = save_results(harness)
    /\ UNCHANGED <<fd, bd, sw, issued, last, agg>>

\* A further SIGTERM or SIGINT while the exiting interpreter runs save_results:
\* signal_handler's sys.exit(0) is raised inside save_results, atexit drops
\* the call, and the process ends with no record written out.
SignalHandlerDuringSave ==
    /\ harness.script = "realtime_evaluator"
    /\ harness.pc = "exiting"
    /\ harness' = [harness EXCEPT !.pc = "terminated"]
    /\ UNCHANGED <<fd, bd, sw, issued, last, agg>>

RealtimeNext ==
    \/ \E item \in Items, ts \in Times, times \in LatencyTriples :
          ProcessPacket(item, ts, times)
    \/ \E duration \in Durations : EvaluateTimestamps(duration)
    \/ EvaluateErrors
    \/ EvaluateTopK
    \/ EvaluateMemory
    \/ EvaluateTime
    \/ SignalHandler
    \/ SaveResults
    \/ SignalHandlerDuringSave

RealtimeSpec == RealtimeInit /\ [][RealtimeNext]_vars

\* the interpreter, once exiting, runs its atexit handlers
RealtimeFairSpec == RealtimeSpec /\ WF_vars(SaveResults)

\* Either script under any configuration: the configured values, and an
\* empty TRACK_ITEMS, TOP_K = 0, EVAL_EVERY = 0.
ConfigInit ==
    /\ \E lam \in Lambdas, eval_every \in {0} \cup EvalEverys,
          track_items \in {<<>>, TrackItems}, top_k \in {0, Len(TrackItems)} :
          /\ fd = ForwardDecay_init(lam)
          /\ bd = BackwardDecay_init(lam)
          /\ \/ harness = Harness_init("run_experiments", lam, eval_every, track_items,
                                       top_k, run_experiments_results)
             \/ harness = Harness_init("realtime_evaluator", lam, eval_every, track_items,
                                       top_k, realtime_evaluator_results)
    /\ \E w \in WindowSizes : sw = SlidingWindow_init(w)
    /\ issued = <<>>
    /\ last = Call("init", 0, 0, 0, None)
    /\ agg = None

ConfigSpec == ConfigInit /\ [][RunExperimentsNext \/ RealtimeNext]_vars

\* either script, from its start
HarnessInit == RunExperimentsInit \/ RealtimeInit
HarnessNext == RunExperimentsNext \/ RealtimeNext
HarnessSpec == HarnessInit /\ [][HarnessNext]_vars

\* ------------------------------------------------ relative_error on its own
\* the estimates and truths relative_error is applied to
Numbers == {Rat(n, d) : n \in -3 .. 3, d \in {1, 2}}

RunExperimentsRelativeError(est, truth) ==
    /\ last' = [op |-> "run_experiments.relative_error", est |-> est, truth |-> truth,
                result |-> run_experiments_relative_error(est, truth)]
    /\ UNCHANGED <<fd, bd, sw, issued, harness, agg>>

RealtimeRelativeError(est, truth) ==
    /\ last' = [op |-> "realtime_evaluator.relative_error", est |-> est, truth |-> truth,
                result |-> realtime_evaluator_relative_error(est, truth)]
    /\ UNCHANGED <<fd, bd, sw, issued, harness, agg>>

RelativeErrorNext ==
    \/ \E est \in Numbers, truth \in Numbers : RunExperimentsRelativeError(est, truth)
    \/ \E est \in Numbers, truth \in Numbers : RealtimeRelativeError(est, truth)

RelativeErrorSpec == Init /\ [][RelativeErrorNext]_vars

\* ------------------------------- processor.py: SlidingWindowDecayAggregator
\* window_size and num_buckets given to the constructor (it divides by
\* num_buckets, so 0 buckets construct nothing), and the timestamps of the
\* calls: before the landmark, at it, and up to several buckets after it
AggWindowSizes == {0, 1, 2}
AggNumBuckets == {1, 2}
AggTimes == -1 .. MaxTime + 1
AggValues == {1}
AggLandmark == 0
AggDecayRate == 1

\* a <= b and a < b for fractions
RLeq(a, b) == a.n * b.d <= b.n * a.d
RLess(a, b) == a.n * b.d < b.n * a.d

SlidingWindowDecayAggregator_init(landmark_time, decay_rate, window_size, num_buckets) ==
    [landmark_time |-> landmark_time, decay_rate |-> decay_rate,
     window_size |-> window_size,
     bucket_size |-> Rat(window_size, num_buckets),
     num_buckets |-> num_buckets,
     buckets |-> <<>>,
     current_bucket_sum |-> Zero, current_bucket_count |-> Zero,
     current_bucket_start |-> RatOfInt(landmark_time),
     item_count |-> 0]

SlidingWindowDecayAggregator_decay_function(self, timestamp) ==
    Exp(self.decay_rate * (timestamp - self.landmark_time))

\* _rotate_buckets: `while current_time - self.current_bucket_start >= self.bucket_size`
rotate_buckets_test(self, current_time) ==
    RLeq(self.bucket_size, RSub(RatOfInt(current_time), self.current_bucket_start))

\* Faulty variant: every saved bucket is kept
rotate_buckets_body_keep_all(self) ==
    [self EXCEPT
       !.buckets = Append(@, [sum |-> self.current_bucket_sum,
                              count |-> self.current_bucket_count,
                              start |-> self.current_bucket_start]),
       !.current_bucket_start = RAdd(@, self.bucket_size),
       !.current_bucket_sum = Zero,
       !.current_bucket_count = Zero]

\* _rotate_buckets: one pass through the body of the loop
rotate_buckets_body(self) ==
    [self EXCEPT
       !.buckets =
           IF Len(@) + 1 > self.num_buckets
           THEN Tail(Append(@, [sum |-> self.current_bucket_sum,
                                count |-> self.current_bucket_count,
                                start |-> self.current_bucket_start]))
           ELSE Append(@, [sum |-> self.current_bucket_sum,
                           count |-> self.current_bucket_count,
                           start |-> self.current_bucket_start]),
       !.current_bucket_start = RAdd(@, self.bucket_size),
       !.current_bucket_sum = Zero,
       !.current_bucket_count = Zero]

\* update, after self._rotate_buckets(timestamp) has returned
SlidingWindowDecayAggregator_update(self, value, timestamp) ==
    [self EXCEPT
       !.current_bucket_sum =
           FAdd(@, FMul(Normalize(value, 0),
                        SlidingWindowDecayAggregator_decay_function(self, timestamp))),
       !.current_bucket_count =
           FAdd(@, SlidingWindowDecayAggregator_decay_function(self, timestamp)),
       !.item_count = @ + 1]

\* total_sum = self.current_bucket_sum; for bucket in self.buckets: total_sum += bucket["sum"]
RECURSIVE query_sum_loop(_, _, _)
query_sum_loop(buckets, i, total_sum) ==
    IF i > Len(buckets) THEN total_sum
    ELSE query_sum_loop(buckets, i + 1, FAdd(total_sum, buckets[i].sum))

\* query_sum, after self._rotate_buckets(query_time) has returned
SlidingWindowDecayAggregator_query_sum(self, query_time) ==
    IF SlidingWindowDecayAggregator_decay_function(self, query_time) = Zero
    THEN Zero
    ELSE FDivByPower(query_sum_loop(self.buckets, 1, self.current_bucket_sum),
                     SlidingWindowDecayAggregator_decay_function(self, query_time))

\* An aggregator as create_aggregator builds it, with no call in progress.
\* updates counts the update calls made; parity tells one pass of the loop
\* from the next.
AggregatorInit ==
    /\ \E lam \in Lambdas :
          /\ fd = ForwardDecay_init(lam)
          /\ bd = BackwardDecay_init(lam)
    /\ \E w \in WindowSizes : sw = SlidingWindow_init(w)
    /\ issued = <<>>
    /\ last = Call("init", 0, 0, 0, None)
    /\ harness = None
    /\ \E window_size \in AggWindowSizes, num_buckets \in AggNumBuckets :
          agg = [self |-> SlidingWindowDecayAggregator_init(
                              AggLandmark, AggDecayRate, window_size, num_buckets),
                 pc |-> "idle", call |-> None, calls |-> 0, updates |-> 0, parity |-> 0]

\* update(value, timestamp) is called: it enters self._rotate_buckets(timestamp)
AggregatorUpdate(value, timestamp) ==
    /\ agg.pc = "idle"
    /\ agg.calls < MaxAggCalls
    /\ agg' = [agg EXCEPT !.pc = "rotating",
                          !.call = Call("agg.update", value, timestamp, 0, None),
                          !.calls = @ + 1, !.updates = @ + 1, !.parity = 0]
    /\ UNCHANGED <<fd, bd, sw, issued, last, harness>>

\* query_sum(query_time) is called: it enters self._rotate_buckets(query_time)
AggregatorQuerySum(query_time) ==
    /\ agg.pc = "idle"
    /\ agg.calls < MaxAggCalls
    /\ agg' = [agg EXCEPT !.pc = "rotating",
                          !.call = Call("agg.query_sum", 0, query_time, 0, None),
                          !.calls = @ + 1, !.parity = 0]
    /\ UNCHANGED <<fd, bd, sw, issued, last, harness>>

\* the loop's test holds: one more pass
AggregatorRotate ==
    /\ agg.pc = "rotating"
    /\ rotate_buckets_test(agg.self, agg.call.time)
    /\ agg' = [agg EXCEPT !.self = rotate_buckets_body(@), !.parity = 1 - @]
    /\ UNCHANGED <<fd, bd, sw, issued, last, harness>>

\* the loop's test fails: _rotate_buckets returns and the call completes
AggregatorReturn ==
    /\ agg.pc = "rotating"
    /\ ~rotate_buckets_test(agg.self, agg.call.time)
    /\ \/ /\ agg.call.op = "agg.update"
          /\ agg' = [agg EXCEPT
                       !.self = SlidingWindowDecayAggregator_update(
                                    @, agg.call.item_id, agg.call.time),
                       !.pc = "idle", !.call = None]
          /\ last' = agg.call
       \/ /\ agg.call.op = "agg.query_sum"
          /\ agg' = [agg EXCEPT !.pc = "idle", !.call = None]
          /\ last' = [agg.call EXCEPT !.result =
                         SlidingWindowDecayAggregator_query_sum(agg.self, agg.call.time)]
    /\ UNCHANGED <<fd, bd, sw, issued, harness>>

AggregatorNext ==
    \/ \E value \in AggValues, timestamp \in AggTimes : AggregatorUpdate(value, timestamp)
    \/ \E query_time \in AggTimes : AggregatorQuerySum(query_time)
    \/ AggregatorRotate
    \/ AggregatorReturn

AggregatorSpec == AggregatorInit /\ [][AggregatorNext]_vars

\* a call in progress keeps running: the interpreter executes the next statement
AggregatorFairSpec ==
    AggregatorSpec /\ WF_vars(AggregatorRotate) /\ WF_vars(AggregatorReturn)
\* ----------------------------------------------------------------- claims

\* C1 (as stated): on the one-key stream 0, 1, 2, ... with window_size = 30,
\* the query issued right after the update at time t returns min(30, t + 1).
C1_StreamCountIsMin30 ==
    (last.op = "sw.query" /\ sw.window_size = CONFIG_WINDOW_SIZE)
        => last.result = Min(CONFIG_WINDOW_SIZE, last.time + 1)

\* C1 (amended): on the one-key stream 0, 1, 2, ... the query issued right
\* after the update at time t returns min(window_size + 1, t + 1): the entry
\* whose timestamp equals t - window_size is still counted.
C1_StreamCountIsMinWindowPlusOne ==
    last.op = "sw.query" => last.result = Min(sw.window_size + 1, last.time + 1)

C1_Witness ==
    /\ last.op = "sw.query"
    /\ sw.window_size = CONFIG_WINDOW_SIZE
    /\ last.time > CONFIG_WINDOW_SIZE
    /\ last.result = CONFIG_WINDOW_SIZE + 1

\* C2 (as stated): whatever calls came before, SlidingWindow.query(key, t)
\* returns at most the number of updates issued for key with timestamp in
\* [t - window_size, t], and exactly that number when the timestamps issued
\* for key are strictly ascending.
C2_QueryCountsTrailingWindow ==
    last.op = "sw.query" =>
        LET inside == IssuedWithin(last.item_id, last.time - sw.window_size, last.time)
        IN /\ last.result <= inside
           /\ StrictlyAscending(IssuedTimestamps(last.item_id, Len(issued)))
                  => last.result = inside

\* g(t) = exp(lambda * t) and the quotient of a float by such a power
G(lam, t) == Exp(lam * t)

\* closed form: the sum over the first n updates, those for item, of g(t_i) / g(t_q)
RECURSIVE ClosedForm(_, _, _, _)
ClosedForm(lam, item, t_q, n) ==
    IF n = 0 THEN Zero
    ELSE IF issued[n][1] = item
         THEN FAdd(ClosedForm(lam, item, t_q, n - 1),
                   FDivByPower(G(lam, issued[n][2]), G(lam, t_q)))
         ELSE ClosedForm(lam, item, t_q, n - 1)

\* C3: run side by side on the same events with the same decay rate,
\* ForwardDecay.query(key, t_q) and BackwardDecay.query(key, t_q) both equal
\* the closed-form sum of g(t_i) / g(t_q) over the key's updates, for every
\* key and query time, whatever the order of the timestamps and the landmark.
C3_ForwardEqualsBackwardEqualsClosedForm ==
    /\ fd.lambda_ = bd.lambda_
    /\ \A item \in Items, t_q \in Times :
          /\ ForwardDecay_query(fd, item, t_q)
                 = ClosedForm(fd.lambda_, item, t_q, Len(issued))
          /\ BackwardDecay_query(bd, item, t_q)
                 = ClosedForm(bd.lambda_, item, t_q, Len(issued))
    /\ last.op = "fd.query"
          => last.result = BackwardDecay_query(bd, last.item_id, last.time)
    /\ last.op = "bd.query"
          => last.result = ForwardDecay_query(fd, last.item_id, last.time)

\* a forward query, later than the landmark, on a key whose second update
\* carries a timestamp below the landmark
C3_Witness ==
    /\ last.op = "fd.query"
    /\ Len(issued) = 2
    /\ issued[1][1] = last.item_id
    /\ issued[2][1] = last.item_id
    /\ issued[2][2] < issued[1][2]
    /\ last.time > issued[1][2]
    /\ last.result # Zero

\* C4 (as stated): every (key, score) pair ForwardDecay.top_k(k, t_q) returns
\* carries the score query(key, t_q) returns.
C4_TopKScoresAreQueryValues ==
    last.op = "fd.top_k" =>
        \A i \in DOMAIN last.result :
            last.result[i][2] = ForwardDecay_query(fd, last.result[i][1], last.time)

C6_UnseenKeyQueriesReturnZero ==
    /\ \A item \in Items \ IssuedItems, t \in Times :
          /\ ForwardDecay_query(fd, item, t) = Zero
          /\ BackwardDecay_query(bd, item, t) = Zero
          /\ SlidingWindow_query(sw, item, t).result = 0
    /\ (last.op \in {"fd.query", "bd.query"} /\ last.item_id \notin IssuedItems)
          => last.result = Zero
    /\ (last.op = "sw.query" /\ last.item_id \notin IssuedItems)
          => last.result = 0

\* a query for a key never updated, made while another key has a log
C6_Witness ==
    /\ last.op = "bd.query"
    /\ last.item_id \notin IssuedItems
    /\ issued # <<>>
    /\ fd.t0 # None
    /\ BackwardDecay_total_frequency(bd, last.time) # Zero

\* C7: top_k(k, t) of each estimator returns at most k pairs, with distinct
\* keys, in non-increasing order of score; after updates for a single key and
\* with k >= 1 it returns exactly that key.
C7_TopKIsBoundedDistinctDescending ==
    last.op \in {"fd.top_k", "bd.top_k", "sw.top_k"} =>
        LET r == last.result IN
        /\ Len(r) <= last.k
        /\ \A i, j \in DOMAIN r : i # j => r[i][1] # r[j][1]
        /\ \A i \in 1 .. Len(r) - 1 :
              IF last.op = "sw.top_k"
              THEN r[i][2] >= r[i + 1][2]
              ELSE ~FLess(r[i][2], r[i + 1][2])
        /\ (Cardinality(IssuedItems) = 1 /\ last.k >= 1)
              => (Len(r) = 1 /\ r[1][1] \in IssuedItems)

\* two keys with different scores, both returned, the later-inserted one first
C7_Witness ==
    /\ last.op = "fd.top_k"
    /\ Len(last.result) = 2
    /\ last.result[1][1] = fd.decayed_counts[2].key
    /\ FLess(last.result[2][2], last.result[1][2])

\* C8: BackwardDecay never prunes: each key's log is the sequence of the
\* timestamps of the updates issued for it, in call order (every update
\* appends one entry at the end), and the stored entries number the updates.
C8_BackwardLogIsTheWholeHistory ==
    /\ \A item \in Items :
          GetOrDefault(bd.timestamps, item, <<>>) = IssuedTimestamps(item, Len(issued))
    /\ StoredEntries(bd.timestamps, Len(bd.timestamps)) = Len(issued)

\* a read made after two updates of one key, the second with the earlier timestamp
C8_Witness ==
    /\ last.op \in {"bd.query", "bd.top_k", "bd.total_frequency"}
    /\ Len(issued) = 2
    /\ issued[1][1] = issued[2][1]
    /\ issued[2][2] < issued[1][2]
    /\ Len(bd.timestamps[1].val) = 2

\* C9: in every reachable state every key's SlidingWindow log is in
\* non-decreasing order, also after updates whose timestamp is below the
\* key's latest timestamp.
C9_SlidingLogsAreAscending ==
    \A i \in DOMAIN sw.timestamps : Ascending(sw.timestamps[i].val)

\* a log holding two timestamps that arrived in descending order
C9_Witness ==
    /\ Len(issued) = 2
    /\ issued[1][1] = issued[2][1]
    /\ issued[2][2] < issued[1][2]
    /\ Len(sw.timestamps[1].val) = 2

\* C10: no call removes a key from an estimator's mapping: every step keeps
\* each key set, and every key that has received an update is in all three.
C10_KeySetsNeverShrink ==
    [][/\ KeySet(fd.decayed_counts) \subseteq KeySet(fd'.decayed_counts)
       /\ KeySet(bd.timestamps) \subseteq KeySet(bd'.timestamps)
       /\ KeySet(sw.timestamps) \subseteq KeySet(sw'.timestamps)
       /\ IssuedItems' \subseteq KeySet(fd'.decayed_counts)
       /\ IssuedItems' \subseteq KeySet(bd'.timestamps)
       /\ IssuedItems' \subseteq KeySet(sw'.timestamps)]_vars

\* a SlidingWindow key whose timestamps have all been evicted
C10_Witness ==
    /\ last.op \in {"sw.query", "sw.top_k", "sw.total_frequency"}
    /\ \E i \in DOMAIN sw.timestamps : sw.timestamps[i].val = <<>>

\* the distinct items among the first n events
ItemsAmong(n) == {issued[i][1] : i \in 1 .. n}

\* C11: both scripts compute a checkpoint exactly when the number of processed
\* events is a positive multiple of EVAL_EVERY: between two events, after n
\* events, floor(n / EVAL_EVERY) checkpoints are recorded, complete; and the
\* j-th recorded timestamp is always the timestamp of event j * EVAL_EVERY.
C11_CheckpointEveryNthEvent ==
    LET n == harness.packet_count
        N == harness.EVAL_EVERY
        timestamps == harness.results.timestamps
    IN /\ n = Len(issued)
       /\ \A j \in DOMAIN timestamps : j * N <= n /\ timestamps[j] = issued[j * N][2]
       /\ harness.pc = "collecting" =>
             /\ Len(timestamps) = n \div N
             /\ Len(harness.results.sw_time) = n \div N

C11_Witness ==
    /\ harness.pc = "collecting"
    /\ harness.EVAL_EVERY = 2
    /\ harness.packet_count = 2
    /\ issued[1][2] # issued[2][2]
    /\ harness.results.timestamps = <<issued[2][2]>>

\* C12: every event is counted in the ground truth and reaches each of the
\* three estimators exactly once, before the checkpoint it triggers: in every
\* state the ground-truth count of a key is the number of events seen for it,
\* BackwardDecay's log of a key holds those events' timestamps, ForwardDecay
\* and SlidingWindow know exactly the keys seen, and the footprints recorded at
\* the j-th checkpoint are those of the first j * EVAL_EVERY events.
C12_EveryEventCountedAndFedOnce ==
    LET n == Len(issued)
        N == harness.EVAL_EVERY
        results == harness.results
    IN /\ \A item \in Items :
             /\ GetOrDefault(harness.ground_truth, item, 0) = Len(IssuedTimestamps(item, n))
             /\ GetOrDefault(bd.timestamps, item, <<>>) = IssuedTimestamps(item, n)
       /\ KeySet(fd.decayed_counts) = IssuedItems
       /\ KeySet(sw.timestamps) = IssuedItems
       /\ \A j \in DOMAIN results.memory_bd : results.memory_bd[j] = j * N
       /\ \A j \in DOMAIN results.memory_fd :
             results.memory_fd[j] = Cardinality(ItemsAmong(j * N))

C12_Witness ==
    /\ harness.pc = "collecting"
    /\ harness.EVAL_EVERY = 1
    /\ Len(issued) = 2
    /\ issued[1][1] = issued[2][1]
    /\ Lookup(harness.ground_truth, issued[1][1]) = 2
    /\ harness.results.memory_bd = <<1, 2>>

\* latest minus earliest timestamp of the events so far
StreamDuration ==
    IF issued = <<>> THEN 0
    ELSE LET stamps == {issued[i][2] : i \in DOMAIN issued}
         IN (CHOOSE hi \in stamps : \A t \in stamps : t <= hi)
            - (CHOOSE lo \in stamps : \A t \in stamps : lo <= t)

\* C13: in run_experiments, as long as window_size is at least the duration of
\* the stream so far, every recorded sw_avg_error and sw_error is 0, and so is
\* the SlidingWindow error of every tracked key at the last checkpoint.
C13_WideWindowHasZeroError ==
    (harness.script = "run_experiments" /\ sw.window_size >= StreamDuration) =>
        /\ \A j \in DOMAIN harness.results.sw_avg_error :
              /\ harness.results.sw_avg_error[j] = RZero
              /\ harness.results.sw_error[j] = RZero
        /\ \A i \in DOMAIN harness.errs.sw : harness.errs.sw[i] = RZero

C13_Witness ==
    /\ harness.script = "run_experiments"
    /\ Len(issued) = 2
    /\ issued[1][1] = issued[2][1]
    /\ StreamDuration = sw.window_size
    /\ issued[2][2] > issued[1][2]
    /\ harness.results.sw_avg_error = <<RZero>>
    /\ Len(harness.errs.sw) = Len(harness.TRACK_ITEMS)

RECURSIVE MeasuredSum(_, _, _)
MeasuredSum(e, lo, hi) ==
    IF lo > hi THEN 0 ELSE harness.measured[lo][e] + MeasuredSum(e, lo + 1, hi)

\* C15: the update time recorded for each estimator at the j-th checkpoint is
\* the average of the update times measured for it over the EVAL_EVERY events
\* since the previous checkpoint.
C15_RecordedLatencyIsIntervalAverage ==
    LET N == harness.EVAL_EVERY
        results == harness.results
        Average(e, j) == Rat(MeasuredSum(e, (j - 1) * N + 1, j * N), N)
    IN /\ \A j \in DOMAIN results.fd_time : results.fd_time[j] = Average(1, j)
       /\ \A j \in DOMAIN results.bd_time : results.bd_time[j] = Average(2, j)
       /\ \A j \in DOMAIN results.sw_time : results.sw_time[j] = Average(3, j)

\* C16: once a stop signal has made realtime_evaluator exit, the process
\* terminates; no checkpoint data changes between the signal and the end; and
\* the terminated process has written the results it had accumulated.
C16_StopSignalFlushesAndTerminates ==
    /\ (harness.pc = "exiting") ~> (harness.pc = "terminated")
    /\ [][harness.pc = "exiting" => harness'.results = harness.results]_vars
    /\ [](harness.pc = "terminated" => harness.saved = Some(harness.results))

\* C17: in the record a script has written, every array has as many entries
\* as the timestamps array.
C17_SavedArraysHaveEqualLength ==
    harness.saved # None =>
        LET record == TheValue(harness.saved)
        IN \A key \in DOMAIN record : Len(record[key]) = Len(record.timestamps)

\* C18: under every configuration, no event and no checkpoint makes a script
\* raise an error.
C18_NothingRaises == harness.error = None

\* C19: either copy of relative_error returns 0 for truth = 0 and est = 0, 1 for
\* truth = 0 and est # 0, and otherwise the fraction |est - truth| / truth (its
\* denominator never 0); it returns 0 for est = truth > 0; and the two copies
\* return the same value.
C19_RelativeErrorDefinition ==
    last.op \in {"run_experiments.relative_error", "realtime_evaluator.relative_error"} =>
        LET est == last.est
            truth == last.truth
            r == last.result
        IN /\ (truth.n = 0 /\ est.n = 0) => r = RZero
           /\ (truth.n = 0 /\ est.n # 0) => r = ROne
           /\ truth.n # 0 =>
                 /\ r.d > 0
                 /\ r.n * (est.d * truth.n)
                        = Abs(est.n * truth.d - truth.n * est.d) * r.d
           /\ (est = truth /\ truth.n > 0) => r = RZero
           /\ run_experiments_relative_error(est, truth)
                 = realtime_evaluator_relative_error(est, truth)

C19_Witness ==
    /\ last.op = "run_experiments.relative_error"
    /\ last.truth = RZero
    /\ last.est = Rat(3, 2)
    /\ last.result = ROne

\* C20: for every decay rate, the query for the key of the only update, at
\* that update's timestamp, returns exactly 1; the accumulator is 1 and the
\* multiplier at the landmark is 1.
C20_SingleUpdateQueriedAtLandmarkIsOne ==
    (/\ Len(issued) = 1
     /\ last.op = "fd.query"
     /\ last.item_id = issued[1][1]
     /\ last.time = issued[1][2]) =>
        /\ last.result = Exp(0)
        /\ Lookup(fd.decayed_counts, last.item_id) = Exp(0)
        /\ fd.t0 = Some(last.time)
        /\ Exp(-(fd.lambda_ * (last.time - TheValue(fd.t0)))) = Exp(0)

C20_Witness ==
    /\ Len(issued) = 1
    /\ fd.lambda_ = 3
    /\ last.op = "fd.query"
    /\ last.item_id = issued[1][1]
    /\ last.time = issued[1][2]
    /\ last.time > 0
    /\ last.result = Exp(0)

\* C21: with the BackwardDecay instance left as it is, the value query(key, t)
\* returned is never exceeded by query(key, t2) at any later time t2, also
\* when the key's log holds timestamps later than t.
C21_BackwardQueryNeverGrows ==
    last.op = "bd.query" =>
        \A t2 \in Times :
            last.time <= t2 =>
                ~FLess(last.result, BackwardDecay_query(bd, last.item_id, t2))

C21_Witness ==
    /\ last.op = "bd.query"
    /\ Contains(bd.timestamps, last.item_id)
    /\ \E i \in DOMAIN Lookup(bd.timestamps, last.item_id) :
          Lookup(bd.timestamps, last.item_id)[i] > last.time
    /\ \E t2 \in Times :
          /\ last.time < t2
          /\ FLess(BackwardDecay_query(bd, last.item_id, t2), last.result)

\* C22: whenever a checkpoint records the memory footprints, Forward's is the
\* number of distinct keys that have received an event (the tracked keys
\* queried without having been seen add nothing), Backward's is the number of
\* events processed so far, and Sliding-Window's is the number of timestamps
\* its logs hold at that moment.
C22_MemoryFootprints ==
    [][Len(harness'.results.memory_fd) > Len(harness.results.memory_fd) =>
          LET n == Len(harness'.results.memory_fd)
          IN /\ Len(harness'.results.memory_bd) = n
             /\ Len(harness'.results.memory_sw) = n
             /\ harness'.results.memory_fd[n] =
                    Cardinality({issued'[i][1] : i \in DOMAIN issued'})
             /\ harness'.results.memory_bd[n] = Len(issued')
             /\ harness'.results.memory_sw[n] =
                    StoredEntries(sw'.timestamps, Len(sw'.timestamps))]_vars

C22_Witness ==
    /\ harness # None
    /\ harness.results.memory_fd # <<>>
    /\ LET n == Len(harness.results.memory_fd)
       IN /\ Len(harness.results.memory_sw) = n
          /\ \E i \in DOMAIN harness.TRACK_ITEMS : harness.TRACK_ITEMS[i] \notin IssuedItems
          /\ harness.results.memory_fd[n] = 1
          /\ harness.results.memory_bd[n] = 2
          /\ harness.results.memory_sw[n] = 1

\* number of entries of the list s equal to v
Count(s, v) == Cardinality({i \in DOMAIN s : s[i] = v})

\* the logs of the keys other than item_id are the same in a and b
SameLogsExcept(a, b, item_id) ==
    \A key \in (KeySet(a.timestamps) \cup KeySet(b.timestamps)) \ {item_id} :
        /\ Contains(a.timestamps, key)
        /\ Contains(b.timestamps, key)
        /\ Lookup(a.timestamps, key) = Lookup(b.timestamps, key)

\* C23: SlidingWindow.update(key, t) leaves key's log ascending, holding t and
\* the former entries that are >= t - window_size (the one equal to
\* t - window_size among them) and none below; the logs of the other keys
\* are as they were.  query(key, t) changes no other key's log either.
C23_UpdateInsertsAndEvictsOneKey ==
    [][/\ issued' # issued =>
             LET item_id == last'.item_id
                 t == last'.time
                 before == GetOrDefault(sw.timestamps, item_id, <<>>)
             IN /\ Contains(sw'.timestamps, item_id)
                /\ Ascending(Lookup(sw'.timestamps, item_id))
                /\ \A v \in Times :
                      Count(Lookup(sw'.timestamps, item_id), v) =
                          IF v < t - sw.window_size THEN 0
                          ELSE Count(before, v) + (IF v = t THEN 1 ELSE 0)
                /\ SameLogsExcept(sw, sw', item_id)
       /\ last'.op = "sw.query" => SameLogsExcept(sw, sw', last'.item_id)]_vars

C23_Witness ==
    /\ last.op = "update"
    /\ issued = <<<<1, 1>>, <<1, 0>>, <<1, 2>>>>
    /\ sw.window_size = 1
    /\ Lookup(sw.timestamps, 1) = <<1, 2>>

\* sum of query(key, current_time) over the first n keys of a SlidingWindow
RECURSIVE SlidingWindow_query_sum(_, _, _)
SlidingWindow_query_sum(self, current_time, n) ==
    IF n = 0 THEN 0
    ELSE SlidingWindow_query(self, self.timestamps[n].key, current_time).result
             + SlidingWindow_query_sum(self, current_time, n - 1)

\* no log of the SlidingWindow holds a timestamp below current_time - window_size
CleanedUp(self, current_time) ==
    \A i \in DOMAIN self.timestamps :
        \A j \in DOMAIN self.timestamps[i].val :
            self.timestamps[i].val[j] >= current_time - self.window_size

\* C24: when SlidingWindow.top_k(k, t) or total_frequency(t) has returned, no
\* key's log holds a timestamp < t - window_size; each score top_k returned
\* is the length of its key's log as left behind, which is what query(key, t)
\* returns; total_frequency returned the sum of query(key, t) over the keys.
C24_TopKAndTotalCleanEveryKey ==
    /\ last.op = "sw.top_k" =>
          /\ CleanedUp(sw, last.time)
          /\ \A i \in DOMAIN last.result :
                LET key == last.result[i][1]
                    score == last.result[i][2]
                IN /\ score = Len(Lookup(sw.timestamps, key))
                   /\ score = SlidingWindow_query(sw, key, last.time).result
    /\ last.op = "sw.total_frequency" =>
          /\ CleanedUp(sw, last.time)
          /\ last.result = SlidingWindow_query_sum(sw, last.time, Len(sw.timestamps))

C24_Witness ==
    /\ last.op = "sw.top_k"
    /\ last.k = 2
    /\ last.time = 2
    /\ issued = <<<<1, 0>>, <<2, 2>>>>
    /\ last.result = <<<<2, 1>>, <<1, 0>>>>
    /\ Lookup(sw.timestamps, 1) = <<>>

\* sum of query(key, current_time) over the first n keys of a ForwardDecay
RECURSIVE ForwardDecay_query_sum(_, _, _)
ForwardDecay_query_sum(self, current_time, n) ==
    IF n = 0 THEN Zero
    ELSE FAdd(ForwardDecay_query_sum(self, current_time, n - 1),
              ForwardDecay_query(self, self.decayed_counts[n].key, current_time))

\* C25 (as stated): ForwardDecay.total_frequency(t) returns the sum over the
\* keys of query(key, t), and 0 while no landmark is set.
C25_TotalFrequencyIsSumOfQueries ==
    last.op = "fd.total_frequency" =>
        /\ last.result = ForwardDecay_query_sum(fd, last.time, Len(fd.decayed_counts))
        /\ fd.t0 = None => last.result = Zero

\* C26: a query, top_k or total_frequency call on the ForwardDecay or on the
\* BackwardDecay leaves both instances as they were (key set, accumulators
\* or logs, landmark), for an unseen key too; SlidingWindow.query for an
\* unseen key leaves the SlidingWindow as it was.
C26_ReadsLeaveStateUnchanged ==
    [][/\ last'.op \in {"fd.query", "fd.top_k", "fd.total_frequency",
                        "bd.query", "bd.top_k", "bd.total_frequency"} =>
             /\ fd' = fd
             /\ bd' = bd
       /\ (last'.op = "sw.query" /\ ~Contains(sw.timestamps, last'.item_id)) =>
             sw' = sw]_vars

C26_Witness ==
    /\ last.op = "fd.query"
    /\ fd.t0 # None
    /\ ~Contains(fd.decayed_counts, last.item_id)
    /\ ~Contains(bd.timestamps, last.item_id)
    /\ ~Contains(sw.timestamps, last.item_id)
    /\ last.result = Zero

\* C27 (as stated): a SlidingWindow read made first changes no later query
\* result: after query(key, t1), top_k(k, t1) or total_frequency(t1), every
\* query(key2, t2) returns what it would have returned without that read.
C27_ReadsDoNotChangeQueryResults ==
    [][last'.op \in {"sw.query", "sw.top_k", "sw.total_frequency"} =>
          \A key2 \in Items, t2 \in Times :
              SlidingWindow_query(sw', key2, t2).result =
                  SlidingWindow_query(sw, key2, t2).result]_vars

\* C28: with the same events fed to both, every timestamp a key's
\* Sliding-Window log holds is in that key's Backward log, as many times at
\* least; and every Sliding-Window footprint recorded at a checkpoint is at
\* most the Backward footprint recorded with it.
C28_SlidingLogsWithinBackwardLogs ==
    /\ \A key \in KeySet(sw.timestamps) :
          /\ Contains(bd.timestamps, key)
          /\ \A v \in Times :
                Count(Lookup(sw.timestamps, key), v) <= Count(Lookup(bd.timestamps, key), v)
    /\ \A i \in DOMAIN harness.results.memory_sw :
          /\ i \in DOMAIN harness.results.memory_bd
          /\ harness.results.memory_sw[i] <= harness.results.memory_bd[i]

C28_Witness ==
    /\ harness.pc = "collecting"
    /\ \E key \in KeySet(sw.timestamps) :
          /\ Len(Lookup(sw.timestamps, key)) = 1
          /\ Len(Lookup(bd.timestamps, key)) = 2
    /\ \E i \in DOMAIN harness.results.memory_sw :
          harness.results.memory_sw[i] < harness.results.memory_bd[i]

\* C29: whenever no call on the SlidingWindowDecayAggregator is in progress,
\* it holds at most num_buckets saved buckets, each saved bucket starts
\* bucket_size after the one before it and strictly later, and item_count is
\* the number of update calls made.
C29_BucketsBoundedOrderedAndCounted ==
    agg.pc = "idle" =>
        /\ Len(agg.self.buckets) <= agg.self.num_buckets
        /\ \A i \in 1 .. Len(agg.self.buckets) - 1 :
              /\ agg.self.buckets[i + 1].start =
                     RAdd(agg.self.buckets[i].start, agg.self.bucket_size)
              /\ RLess(agg.self.buckets[i].start, agg.self.buckets[i + 1].start)
        /\ agg.self.item_count = agg.updates

C29_Witness ==
    /\ agg.pc = "idle"
    /\ agg.self.num_buckets = 2
    /\ Len(agg.self.buckets) = 2
    /\ RLess(RatOfInt(AggLandmark), agg.self.buckets[1].start)
    /\ agg.self.item_count = 2
    /\ agg.calls = 3
    /\ last.op = "agg.query_sum"
    /\ RLess(RatOfInt(last.time), agg.self.buckets[1].start)

\* C30 (as stated): for every aggregator the constructor builds, a call that
\* has entered _rotate_buckets(current_time) comes out of it; when it has,
\* current_time - current_bucket_start < bucket_size; and a call with
\* current_time earlier than current_bucket_start makes no pass through the
\* loop, leaving the buckets and the current bucket's start as they were.
C30_RotateBucketsTerminates ==
    /\ (agg.pc = "rotating") ~> (agg.pc = "idle")
    /\ [](agg.pc = "idle" /\ last.op \in {"agg.update", "agg.query_sum"} =>
             RLess(RSub(RatOfInt(last.time), agg.self.current_bucket_start),
                   agg.self.bucket_size))
    /\ [][(/\ agg.pc = "rotating"
           /\ RLess(RatOfInt(agg.call.time), agg.self.current_bucket_start)) =>
              /\ agg'.pc = "idle"
              /\ agg'.self.buckets = agg.self.buckets
              /\ agg'.self.current_bucket_start = agg.self.current_bucket_start]_vars

====
